---- MODULE Spec2Model ----
(***************************************************************************)
(* statscraper: the cursor of BaseScraper over the tree of Collections and *)
(* Datasets, the memoized child lists, the Dataset's query cache and the   *)
(* resolution of a Result's dimensions (src/statscraper/base_scraper.py).  *)
(*                                                                         *)
(* Python objects are named by strings; an attribute that is None or an    *)
(* object is the empty tuple or the one-element tuple holding the object.  *)
(***************************************************************************)
EXTENDS Integers, Sequences, FiniteSets, TLC

VARIABLES
    scraper,           \* the BaseScraper subclass the controller is an instance of
    current_item,      \* BaseScraper.current_item
    _collection_path,  \* BaseScraper._collection_path (deque, root first)
    _items,            \* Item._items of every item
    parent_,           \* Item.parent_ of every item
    query,             \* Dataset.query of every dataset
    _data,             \* Dataset._data, the class attribute: hash -> ResultSet
    resultsets,        \* the ResultSet objects created so far, in creation order
    _dimensions,       \* Dataset._dimensions of every dataset
    dimensionvalues,   \* Result.dimensionvalues, the class attribute
    _hooks,            \* BaseScraper._hooks, the class attribute
    op,                \* the last call made on the library and what it did
    caller,            \* the queries the caller passes, whether it observes
    seen               \* a ResultSet an earlier fetch returned to the caller

vars == <<scraper, current_item, _collection_path, _items, parent_, query,
          _data, resultsets, _dimensions, dimensionvalues, _hooks, op, caller,
          seen>>

----------------------------------------------------------------------------
(* Constants of the module and Python's None.                              *)

TYPE_DATASET == "Dataset"
TYPE_COLLECTION == "Collection"
ROOT == "<root>"

NONE == <<>>
Some(x) == <<x>>
Val(o) == o[1]

NoItem == "None"

----------------------------------------------------------------------------
(* The scrapers of the tests, and one whose ids are unique among siblings  *)
(* only.  An item object is named once and for all: the core asks for the  *)
(* children of a Collection at most once.                                  *)

Scrapers ==
    {"Scraper", "NestedScraper", "CousinScraper", "PairScraper",
     "BaseScraper", "HookedScraper", "TypedScraper", "RegionScraper"}

Collections == {"root", "c1", "c2"}
Datasets == {"d1", "d2", "d3"}
Items == Collections \cup Datasets

\* Item.type
type(i) == IF i \in Collections THEN TYPE_COLLECTION ELSE TYPE_DATASET

\* Item.id, as the scraper's _fetch_itemslist constructs the item
id(s, i) ==
    CASE i = "root" -> ROOT
      [] i = "c1" -> "Collection_1"
      [] i = "c2" -> "Collection_2"
      [] i = "d1" -> "Dataset_1"
      [] i = "d2" -> "Dataset_2"
      [] i = "d3" -> IF s = "CousinScraper" THEN "Dataset_1" ELSE "Dataset_3"

\* the items the scraper's _fetch_itemslist(item) yields
_fetch_itemslist(s, i) ==
    IF s \in {"Scraper", "TypedScraper"} THEN <<"d1", "d2", "d3">>
    ELSE IF s = "PairScraper" THEN <<"d1", "d2">>
    ELSE CASE i = "root" -> <<"c1", "c2">>
           [] i = "c1" -> <<"d1">>
           [] i = "c2" -> <<"d2", "d3">>
           [] OTHER -> <<>>

\* the scraper leaves a collaborator as BaseScraper defines it: it raises
NotOverridden(s) == s = "BaseScraper"

\* the functions the class of the scraper registered with the decorator "on"
Registered(s) ==
    IF s = "HookedScraper"
    THEN [init |-> <<"i">>, up |-> <<"f", "g">>, top |-> <<"h">>,
          select |-> <<"k">>]
    ELSE [init |-> <<>>, up |-> <<>>, top |-> <<>>, select |-> <<>>]

\* cls.on(hook)(function_): cls._hooks is the dict of BaseScraper, which no
\* subclass replaces by one of its own, whatever cls is
on(hooks, cls, hook, function_) == [hooks EXCEPT ![hook] = Append(@, function_)]

----------------------------------------------------------------------------
(* The state an operation works on: the variables, and what the call in    *)
(* progress has done so far (hooks fired, collaborators invoked, the       *)
(* exception raised, the ResultSet or the number returned, the element or  *)
(* the truth value returned).                                              *)

State ==
    [scraper |-> scraper, current_item |-> current_item,
     _collection_path |-> _collection_path, _items |-> _items,
     parent_ |-> parent_, query |-> query, _data |-> _data,
     resultsets |-> resultsets, _dimensions |-> _dimensions,
     dimensionvalues |-> dimensionvalues, _hooks |-> _hooks,
     fired |-> <<>>, calls |-> <<>>, err |-> "none", ret |-> 0,
     val |-> NoItem]

\* "for f in self._hooks[hook]: f(self)"
RunHooks(S, hook) ==
    [S EXCEPT !.fired = @ \o [j \in 1..Len(S._hooks[hook]) |->
                                 [hook |-> hook, f |-> S._hooks[hook][j]]]]

\* a call of one of the scraper's _fetch_* methods: its argument, the query
\* passed along and the current item at the time of the call
InvokeWith(S, fn, arg, q) ==
    [S EXCEPT !.calls = Append(@, [fn |-> fn, arg |-> arg, q |-> q,
                                   cur |-> S.current_item])]

Invoke(S, fn, arg) == InvokeWith(S, fn, arg, NONE)

Raise(S, exc) == [S EXCEPT !.err = exc]

----------------------------------------------------------------------------
(* Itemslist                                                               *)

StrKey(s) == [kind |-> "str", s |-> s, n |-> 0]
ItemKey(i) == [kind |-> "Item", s |-> i, n |-> 0]
IntKey(n) == [kind |-> "int", s |-> "", n |-> n]

Range(L) == {L[j] : j \in 1..Len(L)}

\* next(filter(f, L)): the first element satisfying f, or StopIteration
NextFilter(L, hits) ==
    IF hits = {}
    THEN [exc |-> "StopIteration", val |-> NoItem]
    ELSE [exc |-> "none",
          val |-> L[CHOOSE j \in hits : \A k \in hits : j <= k]]

\* list.__getitem__ gone wrong: the index taken as one-based
list_getitem_one_based(L, n) ==
    IF 1 <= n /\ n <= Len(L) THEN [exc |-> "none", val |-> L[n]]
    ELSE IF -Len(L) <= n /\ n < 0 THEN [exc |-> "none", val |-> L[Len(L) + n + 1]]
    ELSE [exc |-> "IndexError", val |-> NoItem]

\* list.__getitem__(L, n) for an integer n
list_getitem(L, n) ==
    IF 0 <= n /\ n < Len(L) THEN [exc |-> "none", val |-> L[n + 1]]
    ELSE IF -Len(L) <= n /\ n < 0 THEN [exc |-> "none", val |-> L[Len(L) + n + 1]]
    ELSE [exc |-> "IndexError", val |-> NoItem]

\* Itemslist.__getitem__: "except IndexError" does not catch the
\* StopIteration that next() raises
Itemslist_getitem(s, L, key) ==
    CASE key.kind = "str" ->
            NextFilter(L, {j \in 1..Len(L) : id(s, L[j]) = key.s})
      [] key.kind = "Item" ->
            NextFilter(L, {j \in 1..Len(L) : L[j] = key.s})
      [] OTHER -> list_getitem(L, key.n)

\* Itemslist.__contains__
Itemslist_contains(s, L, key) ==
    IF key.kind = "str"
    THEN {j \in 1..Len(L) : id(s, L[j]) = key.s} # {}
    ELSE key.kind = "Item" /\ key.s \in Range(L)

----------------------------------------------------------------------------
(* Collection.items and the cursor                                         *)

\* Collection.items gone wrong: the child list is fetched at every access
Collection_items_refetch(S, c) ==
    LET L == _fetch_itemslist(S.scraper, c)
        S1 == Invoke([S EXCEPT !._items[c] = Some(<<>>)], "_fetch_itemslist", c)
    IN  IF NotOverridden(S.scraper)
        THEN Raise(S1, "Exception")
        ELSE [S1 EXCEPT !._items[c] = Some(L),
                        !.parent_ = [i \in Items |->
                                        IF i \in Range(L) THEN c ELSE @[i]]]

\* Collection.items: the child list is fetched at the first access
Collection_items(S, c) ==
    IF S._items[c] # NONE
    THEN S
    ELSE LET L == _fetch_itemslist(S.scraper, c)
             S1 == Invoke([S EXCEPT !._items[c] = Some(<<>>)],
                          "_fetch_itemslist", c)
         IN  IF NotOverridden(S.scraper)
             THEN Raise(S1, "Exception")
             ELSE [S1 EXCEPT !._items[c] = Some(L),
                             !.parent_ = [i \in Items |->
                                             IF i \in Range(L) THEN c ELSE @[i]]]

\* move_to_top gone wrong: the last entry of the path is taken for the first
move_to_top_last(S) ==
    LET top == S._collection_path[Len(S._collection_path)]
    IN  RunHooks([S EXCEPT !.current_item = top,
                           !._collection_path = <<top>>], "top")

\* BaseScraper.move_to_top
move_to_top(S) ==
    LET top == Head(S._collection_path)
    IN  RunHooks([S EXCEPT !.current_item = top,
                           !._collection_path = <<top>>], "top")

\* move_up gone wrong: the path is popped, the current item is left behind
move_up_stale(S) ==
    LET hooks(S1) == IF Len(S1._collection_path) = 1
                     THEN RunHooks(RunHooks(S1, "up"), "top")
                     ELSE RunHooks(S1, "up")
    IN  hooks(IF Len(S._collection_path) > 1
              THEN [S EXCEPT !._collection_path =
                        SubSeq(@, 1, Len(S._collection_path) - 1)]
              ELSE S)

\* move_up gone wrong: moving up from the root is refused
move_up_strict(S) ==
    IF Len(S._collection_path) > 1
    THEN LET path == SubSeq(S._collection_path, 1, Len(S._collection_path) - 1)
             S1 == RunHooks([S EXCEPT !._collection_path = path,
                                      !.current_item = path[Len(path)]], "up")
         IN  IF Len(path) = 1 THEN RunHooks(S1, "top") ELSE S1
    ELSE Raise(S, "NoSuchItem")

\* move_up gone wrong: the top hooks run before the up hooks
move_up_top_first(S) ==
    LET hooks(S1) == IF Len(S1._collection_path) = 1
                     THEN RunHooks(RunHooks(S1, "top"), "up")
                     ELSE RunHooks(S1, "up")
    IN  hooks(IF Len(S._collection_path) > 1
              THEN LET path == SubSeq(S._collection_path, 1,
                                      Len(S._collection_path) - 1)
                   IN  [S EXCEPT !._collection_path = path,
                                 !.current_item = path[Len(path)]]
              ELSE S)

\* BaseScraper.move_up
move_up(S) ==
    LET hooks(S1) == IF Len(S1._collection_path) = 1
                     THEN RunHooks(RunHooks(S1, "up"), "top")
                     ELSE RunHooks(S1, "up")
    IN  hooks(IF Len(S._collection_path) > 1
              THEN LET path == SubSeq(S._collection_path, 1,
                                      Len(S._collection_path) - 1)
                   IN  [S EXCEPT !._collection_path = path,
                                 !.current_item = path[Len(path)]]
              ELSE S)

\* move_to gone wrong: the select hooks run whatever comes of the lookup
move_to_hook_first(S, key) ==
    IF type(S.current_item) = TYPE_DATASET
    THEN Raise(S, "TypeError")
    ELSE LET select(S1, r) ==
                 IF r.exc # "none"
                 THEN Raise(RunHooks(S1, "select"), "NoSuchItem")
                 ELSE RunHooks([S1 EXCEPT !.current_item = r.val,
                                          !._collection_path = Append(@, r.val)],
                               "select")
             lookup(S1) ==
                 IF S1.err # "none" THEN S1
                 ELSE select(S1, Itemslist_getitem(S1.scraper,
                                     Val(S1._items[S1.current_item]), key))
         IN  lookup(Collection_items(S, S.current_item))

\* BaseScraper.move_to: self.items is None when the current item is a
\* Dataset, and None[id_] raises TypeError, which the except clause lets pass
move_to(S, key) ==
    IF type(S.current_item) = TYPE_DATASET
    THEN Raise(S, "TypeError")
    ELSE LET select(S1, r) ==
                 IF r.exc # "none"
                 THEN Raise(S1, "NoSuchItem")
                 ELSE RunHooks([S1 EXCEPT !.current_item = r.val,
                                          !._collection_path = Append(@, r.val)],
                               "select")
             lookup(S1) ==
                 IF S1.err # "none" THEN S1
                 ELSE select(S1, Itemslist_getitem(S1.scraper,
                                     Val(S1._items[S1.current_item]), key))
         IN  lookup(Collection_items(S, S.current_item))

----------------------------------------------------------------------------
(* Queries and their hash                                                  *)

\* the order json.dumps(sort_keys=True) puts the keys in
KeyRank(k) == CASE k = "a" -> 1 [] k = "b" -> 2

Pair(k) == [k |-> k, v |-> 1]

\* the dicts a caller passes as query, as (key, value) pairs in insertion order
Queries ==
    {<<>>, <<Pair("a"), Pair("b")>>, <<Pair("b"), Pair("a")>>}

\* inserts a pair at its place in a list of pairs sorted by key
RECURSIVE Insert(_, _)
Insert(p, L) ==
    IF L = <<>> THEN <<p>>
    ELSE IF KeyRank(p.k) <= KeyRank(Head(L).k) THEN <<p>> \o L
    ELSE <<Head(L)>> \o Insert(p, Tail(L))

RECURSIVE SortKeys(_)
SortKeys(q) ==
    IF q = <<>> THEN <<>> ELSE Insert(Head(q), SortKeys(Tail(q)))

\* json.dumps(query, sort_keys=True): "null" for None, the sorted pairs else
dumps(q) == IF q = NONE THEN NONE ELSE Some(SortKeys(Val(q)))

\* Dataset._hash: the md5 of the dump, taken to be collision free
_hash(q) == dumps(q)

\* "if query:" - None and the empty dict are false
Truthy(q) == q # NONE /\ Val(q) # <<>>

----------------------------------------------------------------------------
(* The dimensions and rows the scraper of the tests yields                 *)

Dim(i, av) == [id |-> i, label |-> i, datatype |-> "None", _allowed_values |-> av]

\* Scraper._fetch_dimensions; the dimensions of TypedScraper all come with
\* a list of allowed values
_fetch_dimensions(s, d) ==
    IF s = "TypedScraper"
    THEN <<Dim("date", "list"), Dim("municipality", "list")>>
    ELSE <<Dim("date", "None"), Dim("municipality", "list"),
           Dim("gender", "None")>>

\* Scraper._fetch_allowed_values: what the generator is written to yield
_fetch_allowed_values(s, dimension) ==
    <<[id |-> "male", label |-> "Men"], [id |-> "female", label |-> "Women"]>>

\* the scraper's _fetch_allowed_values passes label= to DimensionValue, as
\* that of the tests does: DimensionValue.__init__ takes no such argument,
\* and the body of the generator raises TypeError where it first makes one
PassesLabel(s) == s # "PairScraper"

\* the allowed values the scraper of the tests declares for municipality
Municipalities == <<"Robertsfors kommun", "Umea kommun">>

\* an entry of the dict of a Result: a raw value, or a DimensionValue the
\* scraper made of a Dimension of its own
Tag(k, v) == [k |-> k, v |-> v, isDimensionValue |-> FALSE]
TypedTag(k, v) == [k |-> k, v |-> v, isDimensionValue |-> TRUE]

Result(value, dimensions) == [value |-> value, raw_dimensions |-> dimensions]

\* Scraper._fetch_data: the rows depend on the id of the dataset alone;
\* TypedScraper tags some of its rows with DimensionValues, RegionScraper
\* tags a row with a dimension its _fetch_dimensions does not yield
_fetch_data(s, d, q) ==
    CASE s = "TypedScraper" /\ id(s, d) = "Dataset_1" ->
            <<Result(1, <<TypedTag("date", "2017-08-10")>>)>>
      [] s = "TypedScraper" /\ id(s, d) = "Dataset_2" ->
            <<Result(2, <<Tag("municipality", "Umea kommun"),
                          TypedTag("date", "2017-02-06")>>)>>
      [] s = "TypedScraper" /\ id(s, d) = "Dataset_3" ->
            <<Result(3, <<Tag("date", "2017-02-07"),
                          Tag("municipality", "Robertsfors kommun")>>)>>
      [] s = "RegionScraper" /\ id(s, d) = "Dataset_1" ->
            <<Result(5, <<Tag("date", "2017-08-10"),
                          Tag("region", "Norrland")>>)>>
      [] id(s, d) = "Dataset_1" ->
            <<Result(127, <<Tag("date", "2017-08-10"),
                            Tag("municipality", "Robertsfors kommun")>>)>>
      [] id(s, d) = "Dataset_2" ->
            <<Result(12, <<Tag("date", "2017-02-06"),
                           Tag("municipality", "Umea kommun")>>),
              Result(130, <<Tag("date", "2017-02-07"),
                            Tag("municipality", "Robertsfors kommun")>>)>>
      [] OTHER -> <<>>

----------------------------------------------------------------------------
(* Dataset: repositioning, dimensions                                      *)

\* _move_here gone wrong: the cursor is not moved up first
_move_here_no_up(S, d) ==
    LET found(S3) ==
            IF S3.err = "NoSuchItem" THEN Raise(S3, "DatasetNotInView") ELSE S3
    IN  found(move_to(S, StrKey(id(S.scraper, d))))

\* _move_here gone wrong: the NoSuchItem of move_to is let through
_move_here_reraise(S, d) ==
    move_to(move_up(Collection_items(S, S.parent_[d])), StrKey(id(S.scraper, d)))

\* Dataset._move_here
_move_here(S, d) ==
    IF S.parent_[d] = NoItem
    THEN Raise(S, "Exception")
    ELSE LET found(S3) ==
                 IF S3.err = "NoSuchItem" THEN Raise(S3, "DatasetNotInView") ELSE S3
             up(S1) ==
                 found(move_to(IF Itemslist_contains(S1.scraper,
                                      Val(S1._items[S1.parent_[d]]), ItemKey(d))
                               THEN move_up(S1)
                               ELSE S1,
                               StrKey(id(S1.scraper, d))))
         IN  up(Collection_items(S, S.parent_[d]))

\* Dataset.dimensions
Dataset_dimensions(S, d) ==
    LET list(S1) ==
            IF S1.err # "none" THEN S1
            ELSE IF S1._dimensions[d] # NONE THEN S1
            ELSE [Invoke(S1, "_fetch_dimensions", d)
                     EXCEPT !._dimensions[d] =
                         Some(_fetch_dimensions(S1.scraper, d))]
    IN  list(IF S.current_item # d THEN _move_here(S, d) ELSE S)

\* Dimensionslist.__contains__ for a string
Dimensionslist_contains(L, k) == \E j \in 1..Len(L) : L[j].id = k

\* the place of the first dimension of L with id k (Dimensionslist.__getitem__)
Dimensionslist_index(L, k) ==
    CHOOSE j \in 1..Len(L) : L[j].id = k /\ \A i \in 1..(j - 1) : L[i].id # k

\* a Dimension passed as key
DimensionKey(i) == [kind |-> "Dimension", s |-> i, n |-> 0]

\* Dimensionslist.__getitem__: a Dimension is no Item, so that a Dimension
\* passed as key is handed to list.__getitem__ as an index would be, and
\* "except IndexError" does not catch the StopIteration of next()
Dimensionslist_getitem(L, key) ==
    CASE key.kind = "str" ->
            NextFilter(L, {j \in 1..Len(L) : L[j].id = key.s})
      [] key.kind = "int" -> list_getitem(L, key.n)
      [] OTHER -> [exc |-> "TypeError", val |-> NoItem]

\* Result.__getitem__ for a string: self.dimensionvalues is the attribute of
\* the class, a Result has none of its own
Result_getitem(dvs, k) == Dimensionslist_getitem(dvs, StrKey(k))

\* DimensionValue.__init__: reading dimension.allowed_values stores the
\* generator _fetch_allowed_values returns when none were given
DimensionValue(S, d, v, j) ==
    LET dimension == Val(S._dimensions[d])[j]
        S1 == IF dimension._allowed_values = "None"
              THEN [Invoke(S, "_fetch_allowed_values", dimension.id)
                       EXCEPT !._dimensions[d] =
                           Some([Val(@) EXCEPT ![j]._allowed_values = "generator"])]
              ELSE S
    IN  [S |-> S1,
         dim |-> Some([value |-> v, id |-> dimension.id,
                       datatype |-> dimension.datatype])]

\* Dimensionslist.__contains__: for a key that is no string it asks
\* super(Itemslist, self), and a Dimensionslist is no Itemslist
Dimensionslist_in(L, key) ==
    IF key.kind = "str"
    THEN [exc |-> "none", val |-> Dimensionslist_contains(L, key.s)]
    ELSE [exc |-> "TypeError", val |-> FALSE]

\* Python's True and False, as the value a call returned
Bool(b) == IF b THEN "True" ELSE "False"

\* collection.items[key] and collection.items.get(key)
Itemslist_get(S, c, key) ==
    LET got(S1, r) == [S1 EXCEPT !.err = r.exc, !.val = r.val]
        get(S1) ==
            IF S1.err # "none" THEN S1
            ELSE got(S1, Itemslist_getitem(S1.scraper, Val(S1._items[c]), key))
    IN  get(Collection_items(S, c))

\* key in collection.items
Itemslist_in(S, c, key) ==
    LET in(S1) ==
            IF S1.err # "none" THEN S1
            ELSE [S1 EXCEPT !.val = Bool(Itemslist_contains(S1.scraper,
                                             Val(S1._items[c]), key))]
    IN  in(Collection_items(S, c))

\* dataset.dimensions[key] and dataset.dimensions.get(key)
Dimensionslist_get(S, d, key) ==
    LET got(S1, r) ==
            [S1 EXCEPT !.err = r.exc,
                       !.val = IF r.exc = "none" THEN r.val.id ELSE NoItem]
        get(S1) ==
            IF S1.err # "none" THEN S1
            ELSE got(S1, Dimensionslist_getitem(Val(S1._dimensions[d]), key))
    IN  get(Dataset_dimensions(S, d))

\* key in dataset.dimensions
Dataset_dimensions_in(S, d, key) ==
    LET had(S1, r) ==
            [S1 EXCEPT !.err = r.exc,
                       !.val = IF r.exc = "none" THEN Bool(r.val) ELSE NoItem]
        in(S1) ==
            IF S1.err # "none" THEN S1
            ELSE had(S1, Dimensionslist_in(Val(S1._dimensions[d]), key))
    IN  in(Dataset_dimensions(S, d))

\* Dimension.allowed_values, for the j-th dimension of Dataset d: what the
\* collaborator returns, a generator, is stored and returned as it is
Dimension_allowed_values(S, d, j) ==
    IF Val(S._dimensions[d])[j]._allowed_values = "None"
    THEN [Invoke(S, "_fetch_allowed_values", Val(S._dimensions[d])[j].id)
             EXCEPT !._dimensions[d] =
                 Some([Val(@) EXCEPT ![j]._allowed_values = "generator"])]
    ELSE S

\* len(dimension.allowed_values), and dimension.allowed_values[key] for a
\* key that is a string: a generator has no length and no items, and a
\* list has no item for a string
AllowedValues_use(S, d, j, use) ==
    LET used(S1) ==
            IF use = "len" /\ Val(S1._dimensions[d])[j]._allowed_values = "list"
            THEN [S1 EXCEPT !.ret = Len(Municipalities)]
            ELSE Raise(S1, "TypeError")
    IN  used(Dimension_allowed_values(S, d, j))

\* list(dimension.allowed_values): a list is enumerated as often as it is
\* read; the generator that was stored is started by the first enumeration
\* and left exhausted, by its last yield or by the exception its body raises
AllowedValues_iterate(S, d, j) ==
    LET kind(S1) == Val(S1._dimensions[d])[j]._allowed_values
        spent(S1) ==
            [S1 EXCEPT !._dimensions[d] =
                Some([Val(@) EXCEPT ![j]._allowed_values = "exhausted"])]
        iterated(S1) ==
            CASE kind(S1) = "list" -> [S1 EXCEPT !.ret = Len(Municipalities)]
              [] kind(S1) = "exhausted" -> [S1 EXCEPT !.ret = 0]
              [] OTHER ->
                    IF PassesLabel(S1.scraper)
                    THEN Raise(spent(S1), "TypeError")
                    ELSE [spent(S1) EXCEPT !.ret =
                             Len(_fetch_allowed_values(S1.scraper,
                                    Val(S1._dimensions[d])[j].id))]
    IN  iterated(Dimension_allowed_values(S, d, j))

----------------------------------------------------------------------------
(* ResultSet.append and Dataset.fetch                                      *)

\* the loop over val.raw_dimensions.items(); dim is the local variable of
\* append, unbound (NONE) until the else branch has assigned it
RECURSIVE AppendTags(_, _, _, _)
AppendTags(S, d, tags, dim) ==
    IF S.err # "none" \/ tags = <<>>
    THEN S
    ELSE LET t == Head(tags)
         IN  IF t.isDimensionValue
             THEN LET v == [value |-> t.v, id |-> t.k, datatype |-> "None"]
                      S1 == [S EXCEPT !.dimensionvalues = Append(@, v)]
                  IN  IF dim = NONE
                      THEN Raise(S1, "UnboundLocalError")
                      ELSE AppendTags([S1 EXCEPT !.dimensionvalues =
                                                     Append(@, Val(dim))],
                                      d, Tail(tags), dim)
             ELSE LET rest(r) ==
                          AppendTags([r.S EXCEPT !.dimensionvalues =
                                                     Append(@, Val(r.dim))],
                                     d, Tail(tags), r.dim)
                      tag(S1) ==
                          IF S1.err # "none" THEN S1
                          ELSE IF Dimensionslist_contains(Val(S1._dimensions[d]), t.k)
                          THEN rest(DimensionValue(S1, d, t.v,
                                   Dimensionslist_index(Val(S1._dimensions[d]), t.k)))
                          ELSE Raise(S1, "TypeError")
                  IN  tag(Dataset_dimensions(S, d))

\* ResultSet.append(val) on the ResultSet rs of Dataset d
ResultSet_append(S, rs, d, val) ==
    LET add(S2) ==
            IF S2.err # "none" THEN S2
            ELSE [S2 EXCEPT !.resultsets[rs].results =
                     Append(@, [value |-> val.value,
                                raw_dimensions |-> val.raw_dimensions,
                                dataset |-> d, resultset |-> rs])]
    IN  add(AppendTags(Dataset_dimensions(S, d), d, val.raw_dimensions, NONE))

\* "for result in self.scraper._fetch_data(...): rs.append(result)"
RECURSIVE AppendAll(_, _, _, _)
AppendAll(S, rs, d, rows) ==
    IF S.err # "none" \/ rows = <<>>
    THEN S
    ELSE AppendAll(ResultSet_append(S, rs, d, Head(rows)), rs, d, Tail(rows))

\* the cache a Dataset looks its ResultSets up in: _data is an attribute of
\* the class Dataset, no instance has one of its own
CacheHas(S, d, h) == h \in DOMAIN S._data
CacheGet(S, d, h) == S._data[h]
CachePut(S, d, h, rs) == [S EXCEPT !._data = (h :> rs) @@ @]

\* Dataset.fetch
fetch(S, d, q) ==
    LET store(S5, hash_, rs) ==
            IF S5.err # "none" THEN S5
            ELSE [CachePut(S5, d, hash_, rs) EXCEPT !.ret = rs]
        rows(S4, hash_, rs) ==
            store(AppendAll(S4, rs, d, _fetch_data(S4.scraper, d, S4.query[d])),
                  hash_, rs)
        create(S2, hash_) ==
            IF S2.err # "none" THEN S2
            ELSE rows(InvokeWith([S2 EXCEPT !.resultsets = Append(@,
                                     [dataset |-> d, dialect |-> "None",
                                      results |-> <<>>])],
                                 "_fetch_data", d, S2.query[d]),
                      hash_, Len(S2.resultsets) + 1)
        lookup(S1, hash_) ==
            IF CacheHas(S1, d, hash_)
            THEN [S1 EXCEPT !.ret = CacheGet(S1, d, hash_)]
            ELSE create(IF S1.current_item # d THEN _move_here(S1, d) ELSE S1,
                        hash_)
        set(S1) == lookup(S1, _hash(S1.query[d]))
    IN  set(IF Truthy(q) THEN [S EXCEPT !.query[d] = q] ELSE S)

\* the object deepcopy makes of a Dataset
Copy(d) ==
    CASE d = "d1" -> "copy of d1"
      [] d = "d2" -> "copy of d2"
      [] d = "d3" -> "copy of d3"

\* deepcopy meets a generator: the ResultSet leads to its Dataset, the
\* Dataset to the scraper and the scraper to every item and its dimensions
MeetsGenerator(S) ==
    \E d \in Datasets :
        /\ S._dimensions[d] # NONE
        /\ \E j \in 1..Len(Val(S._dimensions[d])) :
              Val(S._dimensions[d])[j]._allowed_values
                  \in {"generator", "exhausted"}

\* ResultSet.translate, of the n-th ResultSet: deepcopy copies what the
\* instances hold, not Result.dimensionvalues, which the class holds
translate(S, n, dialect) ==
    IF MeetsGenerator(S)
    THEN Raise(S, "TypeError")
    ELSE LET rs == S.resultsets[n]
             new == Len(S.resultsets) + 1
         IN  [S EXCEPT !.resultsets = Append(@,
                          [dataset |-> Copy(rs.dataset), dialect |-> dialect,
                           results |-> [j \in 1..Len(rs.results) |->
                               [rs.results[j] EXCEPT !.dataset = Copy(rs.dataset),
                                                     !.resultset = new]]]),
                       !.ret = new]

----------------------------------------------------------------------------
(* The calls a user of the library makes                                   *)

\* the largest index a caller passes to move_to
MaxIndex == 3

\* the caller stops fetching once Result.dimensionvalues, which a failed
\* append leaves longer, holds this many values
MaxDimensionValues == 9

Ids == {"Collection_1", "Collection_2", "Dataset_1", "Dataset_2", "Dataset_3",
        "non_existing_item"}

\* an item a caller can hold: the root, or an item of a fetched child list
Known(i) == i = "root" \/ parent_[i] # NoItem

Keys ==
    {StrKey(s) : s \in Ids}
      \cup {ItemKey(i) : i \in {j \in Items : Known(j)}}
      \cup {IntKey(n) : n \in (0 - MaxIndex - 1)..MaxIndex}

NoKey == [kind |-> "none", s |-> "", n |-> 0]

\* the variables after a call that ended in state S; of the key of a
\* move_to the record of the call keeps the kind
Commit(S, name, item, key, q) ==
    /\ scraper' = S.scraper
    /\ current_item' = S.current_item
    /\ _collection_path' = S._collection_path
    /\ _items' = S._items
    /\ parent_' = S.parent_
    /\ query' = S.query
    /\ _data' = S._data
    /\ resultsets' = S.resultsets
    /\ _dimensions' = S._dimensions
    /\ dimensionvalues' = S.dimensionvalues
    /\ _hooks' = S._hooks
    /\ op' = [name |-> name, item |-> item, key |-> key.kind, q |-> q,
              depth |-> Len(_collection_path), err |-> S.err, ret |-> S.ret,
              fired |-> S.fired, calls |-> S.calls, val |-> S.val]
    /\ caller' = caller

\* BaseScraper.__init__ of a scraper of class s, used by a caller c, in a
\* process where BaseScraper._hooks is hooks
ConstructWith(s, c, hooks) ==
    /\ scraper = s
    /\ caller = c
    /\ current_item = "root"
    /\ _collection_path = <<"root">>
    /\ _items = [i \in Items |-> NONE]
    /\ parent_ = [i \in Items |-> NoItem]
    /\ query = [d \in Datasets |-> NONE]
    /\ _data = <<>>
    /\ resultsets = <<>>
    /\ _dimensions = [d \in Datasets |-> NONE]
    /\ dimensionvalues = <<>>
    /\ _hooks = hooks
    /\ seen = NONE
    /\ op = [name |-> "__init__", item |-> NoItem, key |-> "none", q |-> NONE,
             depth |-> 0, err |-> "none", ret |-> 0,
             fired |-> [j \in 1..Len(hooks.init) |->
                          [hook |-> "init", f |-> hooks.init[j]]],
             calls |-> <<>>, val |-> NoItem]

\* the same, in a process where no class but s has registered a function
Construct(s, c) == ConstructWith(s, c, Registered(s))

\* scraper.move_to(key)
MoveTo(key) ==
    /\ Commit(move_to(State, key), "move_to", NoItem, key, NONE)
    /\ seen' = seen

\* scraper.move_up()
MoveUp ==
    /\ Commit(move_up(State), "move_up", NoItem, NoKey, NONE)
    /\ seen' = seen

\* scraper.move_to_top()
MoveToTop ==
    /\ Commit(move_to_top(State), "move_to_top", NoItem, NoKey, NONE)
    /\ seen' = seen

\* collection.items, for a Collection the caller holds
Items_(c) ==
    /\ Known(c)
    /\ Commit(Collection_items(State, c), "items", c, NoKey, NONE)
    /\ seen' = seen

\* what a caller who observes may remember of a fetch that returned
Seen(S, d, q) ==
    [d |-> d, q |-> q, stored |-> S.query[d], ret |-> S.ret,
     invoked |-> \E j \in 1..Len(S.calls) : S.calls[j].fn = "_fetch_data"]

\* dataset.fetch(q), for a Dataset the caller holds; dataset.data is fetch(None)
Fetch(d, q) ==
    /\ Known(d)
    /\ Len(dimensionvalues) < MaxDimensionValues
    /\ q \in {NONE} \cup {Some(x) : x \in caller.queries}
    /\ LET return(S) ==
               /\ Commit(S, "fetch", d, NoKey, q)
               /\ seen' \in IF caller.observes /\ S.err = "none"
                            THEN {seen, Some(Seen(S, d, q))}
                            ELSE {seen}
       IN  return(fetch(State, d, q))

\* dataset.dimensions, for a Dataset the caller holds
Dimensions(d) ==
    /\ Known(d)
    /\ Commit(Dataset_dimensions(State, d), "dimensions", d, NoKey, NONE)
    /\ seen' = seen

Next ==
    \/ \E key \in Keys : MoveTo(key)
    \/ MoveUp
    \/ MoveToTop
    \/ \E c \in Collections : Items_(c)
    \/ \E d \in Datasets, q \in {NONE} \cup {Some(x) : x \in Queries} : Fetch(d, q)
    \/ \E d \in Datasets : Dimensions(d)

\* a caller who reads dataset.data and passes no query of its own
Init ==
    \E s \in {"Scraper", "NestedScraper", "CousinScraper"} :
        Construct(s, [queries |-> {}, observes |-> FALSE])

Spec == Init /\ [][Next]_vars

\* the same caller, remembering one of the ResultSets it was given
InitSeen ==
    \E s \in {"Scraper", "NestedScraper", "CousinScraper"} :
        Construct(s, [queries |-> {}, observes |-> TRUE])

SpecSeen == InitSeen /\ [][Next]_vars

\* a caller who passes queries of its own to the Datasets of a flat scraper
InitQuery == Construct("PairScraper", [queries |-> Queries, observes |-> TRUE])

SpecQuery == InitQuery /\ [][Next]_vars

\* a caller of a scraper whose rows carry a tag of an undeclared dimension
InitRegion == Construct("RegionScraper", [queries |-> {}, observes |-> FALSE])

SpecRegion == InitRegion /\ [][Next]_vars

\* the keys a caller looks a dimension up by: an id, a Dimension it holds
\* or an index
DimensionIds == {"municipality", "non_existing_dimension"}

DimensionKeys ==
    {StrKey(s) : s \in DimensionIds}
      \cup {DimensionKey(s) : s \in DimensionIds}
      \cup {IntKey(n) : n \in {0, MaxIndex}}

\* the keys a caller looks a child up by in a list it was handed; the root
\* is an Item of no list
LookupKeys ==
    {StrKey(s) : s \in {"Dataset_1", "non_existing_item"}}
      \cup {ItemKey(i) : i \in {j \in {"root", "d1", "d3"} : Known(j)}}
      \cup {IntKey(n) : n \in {0, MaxIndex}}

\* collection.items[key], for a Collection the caller holds
Get(c, key) ==
    /\ Known(c)
    /\ Commit(Itemslist_get(State, c, key), "get", c, key, NONE)
    /\ seen' = seen

\* key in collection.items
Contains(c, key) ==
    /\ Known(c)
    /\ Commit(Itemslist_in(State, c, key), "contains", c, key, NONE)
    /\ seen' = seen

\* dataset.dimensions[key], for a Dataset the caller holds
DimensionsGet(d, key) ==
    /\ Known(d)
    /\ Commit(Dimensionslist_get(State, d, key), "dimensions.get", d, key, NONE)
    /\ seen' = seen

\* key in dataset.dimensions
DimensionsContains(d, key) ==
    /\ Known(d)
    /\ Commit(Dataset_dimensions_in(State, d, key), "dimensions.contains", d,
              key, NONE)
    /\ seen' = seen

\* a caller of a scraper of the tests, of one that leaves the collaborators
\* as they are, of one that registers hooks and of one whose rows carry
\* DimensionValues
InitAny ==
    \E s \in {"Scraper", "BaseScraper", "HookedScraper", "TypedScraper"} :
        Construct(s, [queries |-> {}, observes |-> FALSE])

SpecAny == InitAny /\ [][Next]_vars

\* what a caller does with the allowed values: it counts them, or looks
\* one up by an id or by a label
Uses == {"len", "id", "label"}

\* the most dimensions a Dataset has
MaxDimensions == 3

\* len(dimension.allowed_values) or dimension.allowed_values[key], for the
\* j-th of the dimensions the caller was handed by Dataset d
AllowedValues(d, j, use) ==
    /\ _dimensions[d] # NONE
    /\ j <= Len(Val(_dimensions[d]))
    /\ Commit(AllowedValues_use(State, d, j, use), "allowed_values", d,
              [kind |-> use, s |-> "", n |-> j], NONE)
    /\ seen' = seen

\* the calls above, and the lookups in the lists the caller was handed
NextLists ==
    \/ Next
    \/ \E c \in Collections, key \in LookupKeys : Get(c, key)
    \/ \E c \in Collections, key \in LookupKeys : Contains(c, key)
    \/ \E d \in Datasets, key \in DimensionKeys : DimensionsGet(d, key)
    \/ \E d \in Datasets, key \in DimensionKeys : DimensionsContains(d, key)

\* a caller who looks into the lists of a scraper of the tests, or of one
\* that leaves the collaborators as they are
InitLists ==
    \E s \in {"Scraper", "BaseScraper"} :
        Construct(s, [queries |-> {}, observes |-> FALSE])

SpecLists == InitLists /\ [][NextLists]_vars

\* the most copies a caller makes of ResultSets, and the most values it
\* appends to the resolved dimension values of a Result
MaxCopies == 1
MaxMutations == 1

\* a ResultSet the caller was handed: by fetch, or by translate
Held(n) ==
    \/ \E h \in DOMAIN _data : _data[h] = n
    \/ resultsets[n].dialect # "None"

\* the value a caller appends to result.dimensionvalues
Mutation == [value |-> "x", id |-> "mutation", datatype |-> "None"]

\* resultset.translate(dialect), for a ResultSet fetch handed to the caller
Translate(n, dialect) ==
    /\ Held(n)
    /\ Cardinality({m \in 1..Len(resultsets) : resultsets[m].dialect # "None"})
          < MaxCopies
    /\ Commit(translate(State, n, dialect), "translate", NoItem, NoKey, NONE)
    /\ seen' = seen

\* resultset[0].dimensionvalues.append(...), for a ResultSet the caller holds
Mutate(n) ==
    /\ Held(n)
    /\ resultsets[n].results # <<>>
    /\ Cardinality({j \in 1..Len(dimensionvalues) :
                       dimensionvalues[j] = Mutation}) < MaxMutations
    /\ Commit([State EXCEPT !.dimensionvalues = Append(@, Mutation)],
              "mutate", NoItem, NoKey, NONE)
    /\ seen' = seen

\* the calls on the scraper and its items, and those on the ResultSets
NextTranslate ==
    \/ Next
    \/ \E n \in 1..Len(resultsets) : Translate(n, "dialect")
    \/ \E n \in 1..Len(resultsets) : Mutate(n)

\* a caller who translates what it fetched from the scraper of the tests, or
\* from one whose dimensions all come with a list of allowed values
InitTranslate ==
    \E s \in {"Scraper", "TypedScraper"} :
        Construct(s, [queries |-> {}, observes |-> FALSE])

SpecTranslate == InitTranslate /\ [][NextTranslate]_vars

\* the calls on the scraper and its items, and those on the allowed values
\* of the dimensions the caller was handed
NextValues ==
    \/ Next
    \/ \E d \in Datasets, j \in 1..MaxDimensions, use \in Uses :
          AllowedValues(d, j, use)

\* a caller who asks the dimensions of the scraper of the tests for their
\* allowed values
InitValues == Construct("Scraper", [queries |-> {}, observes |-> FALSE])

SpecValues == InitValues /\ [][NextValues]_vars

\* list(dimension.allowed_values), for the j-th of the dimensions the caller
\* was handed by Dataset d; a DimensionValue made of the dimension holds the
\* same object as its allowed_values
Enumerate(d, j) ==
    /\ _dimensions[d] # NONE
    /\ j <= Len(Val(_dimensions[d]))
    /\ Commit(AllowedValues_iterate(State, d, j), "allowed_values", d,
              [kind |-> "iterate", s |-> "", n |-> j], NONE)
    /\ seen' = seen

\* the calls on the scraper and its items, and the enumeration of the
\* allowed values of the dimensions the caller was handed
NextEnumerate ==
    \/ Next
    \/ \E d \in Datasets, j \in 1..MaxDimensions : Enumerate(d, j)

\* a caller who enumerates the allowed values of the dimensions of the
\* scraper of the tests, or of one whose _fetch_allowed_values yields
\* DimensionValues made without a label
InitEnumerate ==
    \E s \in {"Scraper", "PairScraper"} :
        Construct(s, [queries |-> {}, observes |-> FALSE])

SpecEnumerate == InitEnumerate /\ [][NextEnumerate]_vars

\* the function a caller registers itself, and the classes it does so on
Functions == {"m"}
Decorated == {"HookedScraper", "NestedScraper"}

Hooks == {"init", "up", "top", "select"}

\* cls.on(hook)(function_), for a function that is registered nowhere yet;
\* the caller remembers the class it named
On(cls, hook, function_) ==
    /\ \A k \in Hooks : function_ \notin Range(_hooks[k])
    /\ _hooks' = on(_hooks, cls, hook, function_)
    /\ seen' = Some([cls |-> cls, hook |-> hook, f |-> function_])
    /\ op' = [name |-> "on", item |-> NoItem, key |-> "none", q |-> NONE,
              depth |-> Len(_collection_path), err |-> "none", ret |-> 0,
              fired |-> <<>>, calls |-> <<>>, val |-> NoItem]
    /\ UNCHANGED <<scraper, current_item, _collection_path, _items, parent_,
                   query, _data, resultsets, _dimensions, dimensionvalues,
                   caller>>

\* the calls on the scraper and its items, and the registration of a hook
NextHooks ==
    \/ Next
    \/ \E cls \in Decorated, hook \in Hooks, f \in Functions : On(cls, hook, f)

\* a process in which the class HookedScraper has registered its functions,
\* and a caller of a scraper of that class, of another or of the base class
InitHooks ==
    \E s \in {"HookedScraper", "NestedScraper", "BaseScraper"} :
        ConstructWith(s, [queries |-> {}, observes |-> FALSE],
                      Registered("HookedScraper"))

SpecHooks == InitHooks /\ [][NextHooks]_vars

----------------------------------------------------------------------------
(* What the claims speak of, said without the operators above              *)

\* the materialized child list of an item (empty for a Dataset)
ChildList(i) == IF _items[i] = NONE THEN <<>> ELSE Val(_items[i])

\* the child list item i has once the step is taken
ChildListAfter(i) == IF _items'[i] = NONE THEN <<>> ELSE Val(_items'[i])

\* two queries are structurally equal: both None, or the same pairs
AsDict(q) == {Val(q)[j] : j \in 1..Len(Val(q))}
SameQuery(q1, q2) ==
    \/ q1 = NONE /\ q2 = NONE
    \/ q1 # NONE /\ q2 # NONE /\ AsDict(q1) = AsDict(q2)

\* the child of list L a key stands for, in a set: empty when there is none
Resolved(L, key) ==
    CASE key.kind = "str" ->
            {L[j] : j \in {k \in 1..Len(L) :
                             /\ id(scraper, L[k]) = key.s
                             /\ \A i \in 1..(k - 1) : id(scraper, L[i]) # key.s}}
      [] key.kind = "Item" -> {key.s} \cap Range(L)
      [] key.kind = "int" ->
            {L[j] : j \in {k \in 1..Len(L) :
                             k = key.n + 1 \/ k = Len(L) + key.n + 1}}
      [] OTHER -> {}

\* the last call invoked the collaborator fn for item i
Invoked(o, fn, i) ==
    \E j \in 1..Len(o.calls) : o.calls[j].fn = fn /\ o.calls[j].arg = i

----------------------------------------------------------------------------
(* C1: after any sequence of move_to, move_up, move_to_top, fetch and      *)
(* dimensions calls, failed ones included, the path stack is non-empty,    *)
(* starts at the root, every entry is the parent of the next and the last  *)
(* entry is the current item.                                              *)
C1_PathIsChain ==
    /\ Len(_collection_path) >= 1
    /\ _collection_path[1] = "root"
    /\ \A j \in 1..(Len(_collection_path) - 1) :
          parent_[_collection_path[j + 1]] = _collection_path[j]
    /\ _collection_path[Len(_collection_path)] = current_item

\* a fetch failed after it had moved the cursor up from a Dataset
C1_Witness ==
    /\ op.name = "fetch"
    /\ op.err = "DatasetNotInView"
    /\ op.depth = 3
    /\ Len(_collection_path) = 2

(* C2: whenever the fetch-rows or list-dimensions collaborator is invoked  *)
(* for a Dataset, the current item is that very Dataset.                   *)
C2_CollaboratorAtDataset ==
    \A j \in 1..Len(op.calls) :
        op.calls[j].fn \in {"_fetch_data", "_fetch_dimensions"}
            => op.calls[j].cur = op.calls[j].arg

(* C3: two fetches of one Dataset with structurally equal queries return   *)
(* the same ResultSet object, and the fetch-rows collaborator is invoked   *)
(* at most once per Dataset and query, whatever happens in between.        *)
C3_SameQuerySameResultSet ==
    [][/\ ( /\ seen # NONE
            /\ op'.name = "fetch" /\ op'.err = "none"
            /\ op'.item = Val(seen).d
            /\ op'.q # NONE /\ Val(seen).q # NONE
            /\ SameQuery(op'.q, Val(seen).q) )
          => op'.ret = Val(seen).ret
       /\ ( /\ seen # NONE
            /\ Val(seen).invoked
            /\ op'.name = "fetch"
            /\ op'.item = Val(seen).d )
          => ~ \E j \in 1..Len(op'.calls) :
                  /\ op'.calls[j].fn = "_fetch_data"
                  /\ op'.calls[j].arg = Val(seen).d
                  /\ SameQuery(op'.calls[j].q, Val(seen).stored)
      ]_vars

(* C4: the ResultSet D.fetch(q) returns is owned by D and holds exactly    *)
(* the rows the fetch-rows collaborator yields for D and q.                *)
C4_ResultSetOwned ==
    (op.name = "fetch" /\ op.err = "none") =>
        LET rs == resultsets[op.ret]
            rows == _fetch_data(scraper, op.item, query[op.item])
        IN  /\ rs.dataset = op.item
            /\ Len(rs.results) = Len(rows)
            /\ \A j \in 1..Len(rows) :
                  /\ rs.results[j].value = rows[j].value
                  /\ rs.results[j].raw_dimensions = rows[j].raw_dimensions

C6_DeepFetch ==
    (op.name = "fetch" /\ scraper \in {"NestedScraper", "CousinScraper"}) =>
        /\ op.err = "none"
        /\ resultsets[op.ret].dataset = op.item
        /\ Invoked(op, "_fetch_data", op.item) => current_item = op.item

Above == IF Len(_collection_path) > 1
         THEN _collection_path[Len(_collection_path) - 1]
         ELSE _collection_path[1]

C8_MoveToChild ==
    [][\A key \in Keys :
          ( /\ MoveTo(key)
            /\ current_item \in Collections
            /\ Resolved(ChildListAfter(current_item), key) # {} )
          => /\ op'.err = "none"
             /\ {current_item'} = Resolved(ChildListAfter(current_item), key)
             /\ _collection_path' = Append(_collection_path, current_item')
      ]_vars

\* move_to by index reached the second Dataset of the second Collection
C8_Witness ==
    /\ op.name = "move_to"
    /\ op.key = "int"
    /\ op.err = "none"
    /\ _collection_path = <<"root", "c2", "d3">>
    /\ current_item = "d3"

(* C9: from every cursor position, a Dataset's included, move_to(k) with a *)
(* key that stands for no child of the current item fails with NoSuchItem. *)
C9_MissingIsNoSuchItem ==
    [][\A key \in Keys :
          ( /\ MoveTo(key)
            /\ Resolved(ChildListAfter(current_item), key) = {} )
          => op'.err = "NoSuchItem"
      ]_vars

(* C10: move_up with only the root on the path stack raises nothing and    *)
(* leaves the current item and the path stack as they were.                *)
C10_MoveUpAtRoot ==
    [][(MoveUp /\ Len(_collection_path) = 1)
          => /\ op'.err = "none"
             /\ current_item' = "root"
             /\ current_item' = current_item
             /\ _collection_path' = <<"root">>
             /\ _collection_path' = _collection_path
      ]_vars

\* move_up was called at the root, once the root's children were listed
C10_Witness ==
    /\ op.name = "move_up"
    /\ op.depth = 1
    /\ op.err = "none"
    /\ _collection_path = <<"root">>
    /\ _items["root"] # NONE

\* the functions registered for a hook, as the records RunHooks leaves
Hooked(hook) ==
    [j \in 1..Len(_hooks[hook]) |-> [hook |-> hook, f |-> _hooks[hook][j]]]

(* C11: from every reachable cursor state move_to_top leaves the path      *)
(* stack equal to [root] and the current item equal to the root, the root  *)
(* keeping its memoized child list, and calls every function registered    *)
(* for the top hook exactly once, and no other hook.                       *)
C11_MoveToTop ==
    [][MoveToTop
          => /\ op'.err = "none"
             /\ _collection_path' = <<"root">>
             /\ current_item' = "root"
             /\ _items' = _items
             /\ parent_' = parent_
             /\ op'.fired = Hooked("top")
      ]_vars

\* move_to_top was called two levels below the root, with a top hook
C11_Witness ==
    /\ op.name = "move_to_top"
    /\ op.depth = 3
    /\ op.fired = <<[hook |-> "top", f |-> "h"]>>
    /\ _items["root"] = Some(<<"c1", "c2">>)
    /\ current_item = "root"

Result_dimensionvalues(r) == dimensionvalues

(* C13: for every Result r of every fetched ResultSet and every dimension  *)
(* id k among r's raw tags, r[k] is a DimensionValue whose value is r's    *)
(* own raw tag for k, and r's resolved dimension list holds exactly one    *)
(* entry per raw tag of r.                                                 *)
C13_ResolvedOwnTags ==
    \A n \in 1..Len(resultsets) : \A j \in 1..Len(resultsets[n].results) :
        LET r == resultsets[n].results[j]
        IN  /\ \A t \in 1..Len(r.raw_dimensions) :
                  LET g == Result_getitem(Result_dimensionvalues(r),
                                          r.raw_dimensions[t].k)
                  IN  g.exc = "none" /\ g.val.value = r.raw_dimensions[t].v
            /\ Len(Result_dimensionvalues(r)) = Len(r.raw_dimensions)

\* the tags of the rows, row after row
RECURSIVE AllTags(_)
AllTags(rows) ==
    IF rows = <<>> THEN <<>>
    ELSE Head(rows).raw_dimensions \o AllTags(Tail(rows))

\* what the step adds to the resolved dimension values
Appended ==
    SubSeq(dimensionvalues', Len(dimensionvalues) + 1, Len(dimensionvalues'))

(* C14: appending Results of which a raw tag value is already a            *)
(* DimensionValue succeeds, and the resolved dimension values gain one     *)
(* entry per tag, the entry of such a tag being that DimensionValue.       *)
C14_TypedTagKept ==
    [][LET tags == AllTags(_fetch_data(scraper, op'.item, query'[op'.item]))
       IN  ( /\ op'.name = "fetch"
             /\ Invoked(op', "_fetch_data", op'.item)
             /\ \E j \in 1..Len(tags) : tags[j].isDimensionValue )
           => /\ op'.err = "none"
              /\ Len(Appended) = Len(tags)
              /\ \A j \in 1..Len(tags) :
                    tags[j].isDimensionValue
                       => /\ Appended[j].id = tags[j].k
                          /\ Appended[j].value = tags[j].v
      ]_vars

(* C15: a lookup by id or by identity, in the child list of a Collection   *)
(* or in the dimensions of a Dataset, that matches no element fails with   *)
(* NoSuchItem and with no other kind of exception.                         *)
C15_LookupMissing ==
    [][/\ \A c \in Collections, key \in LookupKeys :
             ( /\ Get(c, key)
               /\ ~NotOverridden(scraper)
               /\ key.kind \in {"str", "Item"}
               /\ Resolved(ChildListAfter(c), key) = {} )
             => op'.err = "NoSuchItem"
       /\ \A d \in Datasets, key \in DimensionKeys :
             ( /\ DimensionsGet(d, key)
               /\ key.kind \in {"str", "Dimension"}
               /\ _dimensions'[d] # NONE
               /\ \A j \in 1..Len(Val(_dimensions'[d])) :
                     Val(_dimensions'[d])[j].id # key.s )
             => op'.err = "NoSuchItem"
      ]_vars

(* C16: for the child list of a Collection and the dimensions of a         *)
(* Dataset, and a key that is an id, an instance or an index, "key in      *)
(* list" raises nothing and is true exactly when list[key] returns an      *)
(* element.                                                                *)
C16_ContainsMirrorsGet ==
    [][/\ \A c \in Collections, key \in LookupKeys :
             (Contains(c, key) /\ ~NotOverridden(scraper))
             => /\ op'.err = "none"
                /\ op'.val = "True" <=>
                      Itemslist_getitem(scraper, ChildListAfter(c), key).exc
                         = "none"
       /\ \A d \in Datasets, key \in DimensionKeys :
             (DimensionsContains(d, key) /\ _dimensions'[d] # NONE)
             => /\ op'.err = "none"
                /\ op'.val = "True" <=>
                      Dimensionslist_getitem(Val(_dimensions'[d]), key).exc
                         = "none"
      ]_vars

(* C17: with a scraper that leaves the list-children collaborator as the  *)
(* base class defines it, every access to the children of a Collection,    *)
(* the first and every later one, fails with the error of the              *)
(* collaborator, and none returns a child list.                            *)
C17_NotImplementedEveryTime ==
    [][( /\ NotOverridden(scraper)
         /\ op'.name \in {"items", "get", "contains", "move_to"} )
       => op'.err = "Exception"
      ]_vars

(* C18: for a Dimension whose allowed values come from the collaborator,   *)
(* counting the allowed values gives the number the collaborator yields,   *)
(* and looking one up by its id and by its label gives the same element,   *)
(* with the id the collaborator supplied.                                  *)
C18_AllowedValuesLookup ==
    [][\A d \in Datasets, j \in 1..MaxDimensions, use \in Uses :
          ( /\ AllowedValues(d, j, use)
            /\ _fetch_dimensions(scraper, d)[j]._allowed_values = "None" )
          => /\ op'.err = "none"
             /\ use = "len" =>
                   op'.ret = Len(_fetch_allowed_values(scraper,
                                    Val(_dimensions[d])[j].id))
             /\ use # "len" =>
                   op'.val = _fetch_allowed_values(scraper,
                                Val(_dimensions[d])[j].id)[2].id
      ]_vars

\* ResultSets m and n are a ResultSet and its translation
Sides(m, n) ==
    \/ resultsets[m].dataset = Copy(resultsets[n].dataset)
    \/ resultsets[n].dataset = Copy(resultsets[m].dataset)

(* C19: translate returns a copy with the new dialect and leaves the       *)
(* ResultSets there were, and the resolved dimension values, as they are;  *)
(* and appending to the resolved dimension values of a Result of the copy  *)
(* or of the original does not change those of a Result of the other.      *)
C19_TranslateIndependent ==
    [][/\ \A n \in 1..Len(resultsets) :
             Translate(n, "dialect")
             => /\ op'.err = "none"
                /\ resultsets'[op'.ret].dialect = "dialect"
                /\ \A m \in 1..Len(resultsets) : resultsets'[m] = resultsets[m]
                /\ dimensionvalues' = dimensionvalues
       /\ \A n \in 1..Len(resultsets) :
             Mutate(n)
             => \A m \in 1..Len(resultsets) :
                   Sides(m, n) =>
                      \A j \in 1..Len(resultsets[m].results) :
                         Result_dimensionvalues(resultsets[m].results[j])'
                            = Result_dimensionvalues(resultsets[m].results[j])
      ]_vars

(* C20: every move_up call, the one at the root included, calls the        *)
(* functions registered for the up hook once each, in the order they were  *)
(* registered in, and after them those registered for the top hook, once   *)
(* each and in order, exactly when the path stack has one entry after the  *)
(* call.                                                                   *)
C20_MoveUpHooks ==
    [][MoveUp
          => op'.fired = Hooked("up") \o (IF Len(_collection_path') = 1
                                           THEN Hooked("top")
                                           ELSE <<>>)
      ]_vars

\* move_up was called at the root of a scraper with two up hooks and a top
\* hook, after its children were listed
C20_Witness ==
    /\ op.name = "move_up"
    /\ op.depth = 1
    /\ op.fired = <<[hook |-> "up", f |-> "f"], [hook |-> "up", f |-> "g"],
                    [hook |-> "top", f |-> "h"]>>
    /\ _items["root"] # NONE
    /\ current_item = "root"

(* C21: after a fetch that was passed a query of its own, the empty        *)
(* mapping included, the Dataset's stored query is that query and the      *)
(* ResultSet returned is the one the cache holds for it, whatever query    *)
(* the Dataset stored before.                                              *)
C21_ExplicitQueryStored ==
    (op.name = "fetch" /\ op.err = "none" /\ op.q # NONE) =>
        /\ query[op.item] = op.q
        /\ _hash(op.q) \in DOMAIN _data
        /\ _data[_hash(op.q)] = op.ret

\* the raw tags of the rows of Dataset d whose dimension id is none of the
\* ids of the Dimension list of d
Undeclared(d) ==
    LET tags == AllTags(_fetch_data(scraper, d, query[d]))
    IN  {j \in 1..Len(tags) :
            /\ ~ tags[j].isDimensionValue
            /\ ~ Dimensionslist_contains(Val(_dimensions[d]), tags[j].k)}

(* C22: a fetch whose rows carry a raw tag of a dimension id that is not   *)
(* in the Dimension list of the Dataset completes, caches its ResultSet    *)
(* and resolves the tag to a DimensionValue with the raw value, the raw id *)
(* and no datatype.                                                        *)
C22_UndeclaredTagResolved ==
    ( /\ op.name = "fetch"
      /\ Invoked(op, "_fetch_data", op.item)
      /\ _dimensions[op.item] # NONE
      /\ Undeclared(op.item) # {} )
    => /\ op.err = "none"
       /\ _hash(query[op.item]) \in DOMAIN _data
       /\ \A j \in Undeclared(op.item) :
             LET t == AllTags(_fetch_data(scraper, op.item, query[op.item]))[j]
             IN  \E n \in 1..Len(dimensionvalues) :
                    dimensionvalues[n] = [value |-> t.v, id |-> t.k,
                                          datatype |-> "None"]

\* the class a function was registered on: the one the caller named, or
\* the class that registers the function when it is defined
RegisteredOn(f) ==
    IF seen # NONE /\ Val(seen).f = f
    THEN Val(seen).cls
    ELSE CHOOSE s \in Scrapers :
             \E k \in Hooks : f \in Range(Registered(s)[k])

(* C23: every function a call on a controller invokes for a hook (init,    *)
(* up, top, select) was registered on the class of that controller: a      *)
(* function registered on one scraper class is never invoked by a          *)
(* controller of another class or of the base class.                       *)
C23_HooksPerClass ==
    \A j \in 1..Len(op.fired) : RegisteredOn(op.fired[j].f) = scraper

(* C24: for a Dimension that has neither a datatype nor allowed values of  *)
(* its own, every enumeration of its allowed values, the first and the     *)
(* later ones, gives the full sequence the collaborator yields.            *)
C24_AllowedValuesMemoized ==
    [][\A d \in Datasets, j \in 1..MaxDimensions :
          ( /\ Enumerate(d, j)
            /\ _fetch_dimensions(scraper, d)[j]._allowed_values = "None"
            /\ _fetch_dimensions(scraper, d)[j].datatype = "None" )
          => /\ op'.err = "none"
             /\ op'.ret = Len(_fetch_allowed_values(scraper,
                                 Val(_dimensions[d])[j].id))
      ]_vars

(* C25: a move_to call that fails leaves the current item and the path     *)
(* stack as they were before the call and calls no function registered     *)
(* for the select hook; a move_to call that succeeds calls every function  *)
(* registered for the select hook exactly once, and no other hook.         *)
C25_FailedMoveTo ==
    [][\A key \in Keys :
          MoveTo(key)
             => /\ op'.err # "none"
                   => /\ current_item' = current_item
                      /\ _collection_path' = _collection_path
                      /\ op'.fired = <<>>
                /\ op'.err = "none" => op'.fired = Hooked("select")
      ]_vars

\* move_to failed with NoSuchItem one level below the root, in a scraper
\* with a select hook
C25_Witness ==
    /\ op.name = "move_to"
    /\ op.err = "NoSuchItem"
    /\ op.depth = 2
    /\ op.fired = <<>>
    /\ _hooks["select"] = <<"k">>
    /\ current_item = "c2"
    /\ _collection_path = <<"root", "c2">>

(* C26: a fetch or a dimensions call that fails with DatasetNotInView      *)
(* leaves the current item and the path stack as they were before the      *)
(* call and calls no function registered for the up, top or select hook.   *)
C26_FailedFetchStays ==
    [][( /\ op'.name \in {"fetch", "dimensions"}
         /\ op'.err = "DatasetNotInView" )
          => /\ current_item' = current_item
             /\ _collection_path' = _collection_path
             /\ op'.fired = <<>>
      ]_vars

====
